---- MODULE Spec2Model ----
(***************************************************************************)
(* A model of src/visualization/render.py: the Visualizer entry points,    *)
(* visualize_positions, save_animation and create_mp4_clip, run one call   *)
(* after the other against a file system that persists between calls.      *)
(*                                                                         *)
(* Python values: None is the empty tuple <<>> for optional values, an      *)
(* optional integer n is <<n>>.  A frame file is the record of its          *)
(* formatted index (a sequence of decimal digits) and its extension.        *)
(* An input array is [dim, len, mats]: its trailing dimension, its number   *)
(* of time steps and "rot" where every joint matrix in it is a valid        *)
(* rotation, "skew" where one is not.                                       *)
(***************************************************************************)
EXTENDS Integers, Sequences, FiniteSets, TLC

\* ------------------------------------------------------------------ bounds
\* longest input sequence (time steps of one array / one panel)
MaxLen == 2
\* number of top-level calls made in one run
MaxCalls == 2

\* ------------------------------------------------------- skeleton constants
\* fk.SMPL_NR_JOINTS and len(fk.SMPL_MAJOR_JOINTS) (imported at render.py:12)
SMPL_NR_JOINTS == 24
N_MAJOR_JOINTS == 15

VARIABLES
    pc,        \* position of the running call
    op,        \* the top-level call and its arguments
    vp,        \* arguments of the running visualize_positions call
    save_to,   \* directory the running call writes its frames to
    j,         \* loop counter of the frame loop
    written,   \* frame files written by the running call
    drawn,     \* figure state left by the last update_frame
    enc,       \* encoder invocations of the running call
    err,       \* exception the running call ended with
    fk,        \* arrays handed to forward kinematics by the running call
    dirs,      \* file system: directory -> set of frame files, for existing directories
    videos,    \* file system: existing video files
    ncalls,    \* calls started so far
    client,    \* the calling script: which entry points it uses
    axes,      \* the 3D axes of the open figure: the camera of each panel
    event      \* the last motion event delivered to the figure

vars == <<pc, op, vp, save_to, j, written, drawn, enc, err, fk, dirs, videos, ncalls, client, axes, event>>

\* ------------------------------------------------------------ Python values
None == <<>>
Some(n) == <<n>>
\* truth value of an optional integer: None and 0 are falsy
Truthy(x) == x # None /\ x[1] # 0

Min(S) == CHOOSE x \in S : \A y \in S : x <= y

RECURSIVE Digits(_)
\* str(n) for n >= 0, as a sequence of decimal digits
Digits(n) == IF n < 10 THEN <<n>> ELSE Append(Digits(n \div 10), n % 10)

RECURSIVE PadLeft(_, _)
\* '{:0>w}'.format(s): right-align s, fill with zeros up to width w
PadLeft(s, w) == IF Len(s) >= w THEN s ELSE PadLeft(<<0>> \o s, w)

\* 'frame_{:0>4}.{}'.format(j, image_format)
frame_name(n, image_format) == [stem |-> PadLeft(Digits(n), 4), ext |-> image_format]

\* '{:>.2f}'.format(1/60.0*num), in hundredths of a second
time_passed(num) == (num * 100 + 30) \div 60

\* matplotlib's default colour cycle _colors[0], _colors[2]
Colors0 == "C0"
Colors2 == "C2"

\* ----------------------------------------------------------- file system
DirNames == {"out_file_tmp", "frames_skeleton", "tmp_smpl", "frames_smpl", "out_folder"}

NoDir == [exists |-> FALSE, files |-> {}]

\* os.path.exists(d)
path_exists(d) == dirs[d].exists

\* mutant: the directory is not created
makedirs_skipped(d) == dirs

\* if not os.path.exists(d): os.makedirs(d)
makedirs(d) == IF path_exists(d) THEN dirs ELSE [dirs EXCEPT ![d] = [exists |-> TRUE, files |-> {}]]

\* fig.savefig(os.path.join(d, f)): creates or overwrites the file
savefig(d, f) == [dirs EXCEPT ![d].files = @ \cup {f}]

\* shutil.rmtree(d)
rmtree(d) == [dirs EXCEPT ![d] = NoDir]

skeleton_mp4 == [name |-> "skeleton", n |-> 0]
smpl_mp4 == [name |-> "smpl", n |-> 0]
vid_mp4(counter) == [name |-> "vid", n |-> counter]

\* ------------------------------------------------------------- the encoder
\* what the external encoder process can do when it is started
EncoderOutcomes == {"ok", "nonzero", "missing"}

\* the record of one create_mp4_clip call: the command line and what happened
Invocation(out_path, frame_dir, fps, start_frame, outcome) ==
    [out |-> out_path, existed |-> out_path \in videos, pattern |-> frame_dir,
     framerate |-> fps, start_number |-> start_frame, outcome |-> outcome]

\* create_mp4_clip: the video files after the encoder ran ('-y' overwrites)
create_mp4_clip(out_path, outcome) == IF outcome = "ok" THEN videos \cup {out_path} ELSE videos

\* ------------------------------------------------------------ update_frame
\* the colour update_frame gives the lines of panel l at frame num
line_color(num, l, change_color_after_frame, colors) ==
    IF change_color_after_frame # <<>>
       /\ Truthy(change_color_after_frame[l])
       /\ num >= change_color_after_frame[l][1]
    THEN Colors2
    ELSE colors[l]

\* update_frame(num, positions, lines, parents, colors)
update_frame(num, a) ==
    [num |-> num,
     color |-> [l \in 1..Len(a.lens) |-> line_color(num, l, a.change_color_after_frame, a.colors)],
     text |-> time_passed(num)]

\* The callers: a script drives the skeleton animation (visualize_positions
\* itself or through a Visualizer), the dense mesh rendering or save_animation.
\* The three write to disjoint directories and video files. A viewer opens the
\* skeleton animation in a window (out_file None) and moves the mouse over it;
\* the scripts run unattended.
Clients == {"skeleton", "dense_smpl", "animation", "viewer"}

NoCall == [fn |-> "none"]
NoVp == [fn |-> "none"]
NoDrawn == [num |-> 0 - 1, color |-> <<>>, text |-> 0]
NoEvent == [inaxes |-> 0 - 1]

Init ==
    /\ pc = "idle"
    /\ op = NoCall
    /\ vp = NoVp
    /\ save_to = "none"
    /\ j = 0
    /\ written = {}
    /\ drawn = NoDrawn
    /\ enc = <<>>
    /\ err = "none"
    /\ fk = <<>>
    /\ dirs = [d \in DirNames |-> NoDir]
    /\ videos = {}
    /\ ncalls = 0
    /\ client \in Clients
    /\ axes = <<>>
    /\ event = NoEvent

\* an exception leaves the call: nothing after the raising line runs
Raise(e) ==
    /\ pc' = "failed"
    /\ err' = e

\* the calling script c can start its next top-level call
CanCall(c) ==
    /\ pc = "idle"
    /\ ncalls < MaxCalls
    /\ client = c

\* ------------------------------------------------------ visualize_positions
\* the arguments of a direct call: one or two panels, a colour change on at
\* most one of them, out_file None / *.mp4 / another extension, frame_dir None
\* or a directory
OptFrames == {None} \cup {Some(n) : n \in 0..MaxLen}

ColorChanges(k) ==
    {<<>>} \cup { c \in [1..k -> OptFrames] : \A a, b \in 1..k : c[a] # None /\ c[b] # None => a = b }

PositionsArgs ==
    { [fn |-> "visualize_positions", lens |-> ls, colors |-> SubSeq(<<"C0", "C1">>, 1, Len(ls)),
       change_color_after_frame |-> c, out_file |-> o[1], frame_dir |-> o[2], fps |-> r,
       overlay |-> v] :
        ls \in [1..1 -> 0..MaxLen] \cup [1..2 -> 0..MaxLen],
        c \in ColorChanges(1) \cup ColorChanges(2),
        o \in {<<"None", "None">>, <<"None", "frames_skeleton">>, <<"mp4", "None">>,
               <<"mp4", "frames_skeleton">>, <<"avi", "None">>},
        r \in {30, 60},
        v \in BOOLEAN }

\* mutant: the animation runs to the end of the longest panel
seq_length_longest == CHOOSE x \in {vp.lens[i] : i \in 1..Len(vp.lens)} : \A i \in 1..Len(vp.lens) : x >= vp.lens[i]

\* seq_length = np.amin([pos.shape[0] for pos in positions])
seq_length == Min({vp.lens[i] : i \in 1..Len(vp.lens)})

\* a direct call of visualize_positions
visualize_positions ==
    /\ CanCall("skeleton") \/ CanCall("viewer")
    /\ \E a \in PositionsArgs :
        /\ a.change_color_after_frame = <<>> \/ Len(a.change_color_after_frame) = Len(a.lens)
        /\ client = "viewer" => a.out_file = "None"
        /\ op' = [fn |-> "visualize_positions"]
        /\ vp' = a
    /\ pc' = "compose"
    /\ ncalls' = ncalls + 1
    /\ UNCHANGED <<save_to, j, written, drawn, enc, err, fk, dirs, videos, client, axes, event>>

\* the exception raised between entry and the out_file branch, "none" if none:
\* np.amin(pos[0], axis=(0, 1)) raises on a first panel with no frames, and
\* an out_file that is not None must end in .mp4
compose_error(a) ==
    IF a.lens[1] = 0 THEN "ValueError"
    ELSE IF a.out_file # "None" /\ a.out_file # "mp4" THEN "AssertionError: Only mp4 extension works."
    ELSE "none"

\* n_axes = 1 if overlay else len(pos)
n_axes(a) == IF a.overlay THEN 1 ELSE Len(a.lens)

\* axis limits: autoscaled to the data plotted in panel `of`, `zoom` steps in
Limits(of, zoom) == [of |-> of, zoom |-> zoom]

\* the axes of panel i after fig.add_subplot(..., projection='3d') and the
\* plots: the camera a 3D axes is created with
default_axes(i) ==
    [elev |-> 30, azim |-> 0 - 60,
     xlim |-> Limits(i, 0), ylim |-> Limits(i, 0), zlim |-> Limits(i, 0)]

\* the axes of panel i after ax.view_init(elev=0, azim=-56)
new_axes(i) == [default_axes(i) EXCEPT !.elev = 0, !.azim = 0 - 56]

\* visualize_positions from entry to the out_file branch: the figure, the
\* lines, the axis limits and the animation object; the ValueError of an empty
\* first panel is raised before view_init, the assert on out_file after it
visualize_positions_compose ==
    /\ pc = "compose"
    /\ IF compose_error(vp) # "none"
       THEN Raise(compose_error(vp))
       ELSE /\ pc' = IF vp.out_file = "None" THEN "show" ELSE "mkdir"
            /\ err' = err
    /\ axes' = [i \in 1..n_axes(vp) |->
                    IF compose_error(vp) = "ValueError" THEN default_axes(i) ELSE new_axes(i)]
    /\ UNCHANGED <<op, vp, save_to, j, written, drawn, enc, fk, dirs, videos, ncalls, client, event>>

\* plt.show(): the animation draws its next frame
show_frame ==
    /\ pc = "show"
    /\ seq_length > 0
    /\ drawn' = update_frame(j, vp)
    /\ j' = (j + 1) % seq_length
    /\ UNCHANGED <<pc, op, vp, save_to, written, enc, err, fk, dirs, videos, ncalls, client, axes, event>>

\* the orientations a drag with the left button turns a panel to
Orientations == {[elev |-> 0, azim |-> 0 - 56], [elev |-> 30, azim |-> 0 - 26]}

\* the zoom steps a drag with the right button takes a panel to
ZoomSteps == 0..1

\* the axes after the figure's own mouse handling of a motion event: nothing
\* moves, or the panel p under a pressed button is turned or zoomed
dragged(ax) ==
    {ax}
    \cup { [ax EXCEPT ![p].elev = o.elev, ![p].azim = o.azim] : p \in 1..Len(ax), o \in Orientations }
    \cup { [ax EXCEPT ![p].xlim.zoom = z, ![p].ylim.zoom = z, ![p].zlim.zoom = z] :
             p \in 1..Len(ax), z \in ZoomSteps }

\* mutant: on_move copies the orientation of the source panel only
on_move_orientation_only(ax, inaxes) ==
    IF inaxes \notin 1..Len(ax)
    THEN ax
    ELSE [i \in 1..Len(ax) |->
            IF i # inaxes
            THEN [ax[i] EXCEPT !.elev = ax[inaxes].elev, !.azim = ax[inaxes].azim]
            ELSE ax[i]]

\* on_move(event): the axes afterwards; inaxes is the index of the panel the
\* event lies in, 0 outside all panels (source_ax is None)
on_move(ax, inaxes) ==
    IF inaxes \notin 1..Len(ax)
    THEN ax
    ELSE [i \in 1..Len(ax) |->
            IF i # inaxes
            THEN [elev |-> ax[inaxes].elev, azim |-> ax[inaxes].azim,
                  xlim |-> ax[inaxes].xlim, ylim |-> ax[inaxes].ylim, zlim |-> ax[inaxes].zlim]
            ELSE ax[i]]

\* the mouse moves over the window while plt.show() runs: the figure's own
\* handlers run, then on_move, connected last
motion_notify_event ==
    /\ pc = "show"
    /\ client = "viewer"
    /\ \E inaxes \in 0..Len(axes) :
        /\ event' = [inaxes |-> inaxes]
        /\ \E ax \in (IF inaxes = 0 THEN {axes} ELSE dragged(axes)) :
            axes' = on_move(ax, inaxes)
    /\ UNCHANGED <<pc, op, vp, save_to, j, written, drawn, enc, err, fk, dirs, videos, ncalls, client>>

\* the window is closed: plt.show() returns, plt.close()
show_close ==
    /\ pc = "show"
    /\ pc' = "done"
    /\ UNCHANGED <<op, vp, save_to, j, written, drawn, enc, err, fk, dirs, videos, ncalls, client, axes, event>>

\* the directory visualize_positions writes its frames to
positions_save_to(a) == IF a.frame_dir = "None" THEN "out_file_tmp" ELSE a.frame_dir

visualize_positions_makedirs ==
    /\ pc = "mkdir"
    /\ vp.fn = "visualize_positions"
    /\ save_to' = positions_save_to(vp)
    /\ dirs' = makedirs(positions_save_to(vp))
    /\ j' = 0
    /\ pc' = "frames"
    /\ UNCHANGED <<op, vp, written, drawn, enc, err, fk, videos, ncalls, client, axes, event>>

\* one pass of the loop: update_frame(j, ...), fig.savefig(frame_<j>.png)
visualize_positions_save_frame ==
    /\ pc = "frames"
    /\ vp.fn = "visualize_positions"
    /\ j < seq_length
    /\ drawn' = update_frame(j, vp)
    /\ dirs' = savefig(save_to, frame_name(j, "png"))
    /\ written' = written \cup {frame_name(j, "png")}
    /\ j' = j + 1
    /\ UNCHANGED <<pc, op, vp, save_to, enc, err, fk, videos, ncalls, client, axes, event>>

\* the frame rate create_mp4_clip is given by visualize_positions: its default
positions_encoder_fps(a) == 60

\* create_mp4_clip(out_file, save_to/frame_%04d.png) after the loop
visualize_positions_encode ==
    /\ pc = "frames"
    /\ vp.fn = "visualize_positions"
    /\ j >= seq_length
    /\ \E outcome \in EncoderOutcomes :
        /\ enc' = Append(enc, Invocation(skeleton_mp4, save_to, positions_encoder_fps(vp), 0, outcome))
        /\ IF outcome = "missing"
           THEN Raise("FileNotFoundError") /\ videos' = videos
           ELSE /\ videos' = create_mp4_clip(skeleton_mp4, outcome)
                /\ pc' = "cleanup"
                /\ err' = err
    /\ UNCHANGED <<op, vp, save_to, j, written, drawn, fk, dirs, ncalls, client, axes, event>>

\* the directories after `if frame_dir is None: shutil.rmtree(save_to)`
positions_cleanup(a) == IF a.frame_dir = "None" THEN rmtree(save_to) ELSE dirs

visualize_positions_cleanup ==
    /\ pc = "cleanup"
    /\ vp.fn = "visualize_positions"
    /\ dirs' = positions_cleanup(vp)
    /\ pc' = "done"
    /\ UNCHANGED <<op, vp, save_to, j, written, drawn, enc, err, fk, videos, ncalls, client, axes, event>>

\* --------------------------------------------------------------- Visualizer
\* Visualizer.__init__: video_dir and frames_dir are TRUE when not None; the
\* two asserts of the constructor hold of every Visualizer there is
Visualizers ==
    { v \in [video_dir : BOOLEAN, frames_dir : BOOLEAN, rep : {"rotmat", "quat", "aa"}, is_sparse : BOOLEAN] :
        v.video_dir \/ v.frames_dir }

\* self.expected_n_input_joints
expected_n_input_joints(v) == IF v.is_sparse THEN N_MAJOR_JOINTS ELSE SMPL_NR_JOINTS

Array(dim, len, mats) == [dim |-> dim, len |-> len, mats |-> mats]

\* arrays of a given trailing dimension: an array without time steps holds no matrix
Arrays(dim) == {Array(dim, 0, "rot")} \cup {Array(dim, n, m) : n \in 1..MaxLen, m \in {"rot", "skew"}}

\* trailing dimensions an input of n joints can come with: aa, quat, rotmat
Dims(n) == {n * 3, n * 4, n * 9}

\* degrees of freedom per joint of a representation
dof(rep) == IF rep = "rotmat" THEN 9 ELSE IF rep = "quat" THEN 4 ELSE 3

\* np.concatenate([a, b], axis=0)
concatenate(a, b) ==
    Array(a.dim, a.len + b.len, IF a.mats = "rot" /\ b.mats = "rot" THEN "rot" ELSE "skew")

\* common.utils.get_closest_rotmat: every matrix replaced by the closest
\* rotation; a matrix that is a rotation stays as it is
get_closest_rotmat(a) == Array(a.dim, a.len, IF a.mats = "rot" THEN "rot" ELSE "projected")

\* common.utils.is_valid_rotmat: every matrix is orthonormal with determinant 1
is_valid_rotmat(a) == a.mats \in {"rot", "projected"}

\* np.reshape(x, [b, -1, dof]) with b = 0 raises: the -1 cannot be inferred
ValueError == [raised |-> "ValueError"]

\* visualize_quat._to_rotmat: quaternion.as_rotation_matrix of n*4 values per
\* step; raises on an array without time steps
quat_to_rotmat(a) == IF a.len = 0 THEN ValueError ELSE Array((a.dim \div 4) * 9, a.len, "rot")

\* visualize_aa._to_rotmat: aa2rotmat of n*3 values per step; raises on an
\* array without time steps
aa_to_rotmat(a) == IF a.len = 0 THEN ValueError ELSE Array((a.dim \div 3) * 9, a.len, "rot")

\* the first assert of visualize_quat / visualize_aa / visualize_rotmat
shapes_match(v, seed, prediction, target, d) ==
    /\ seed.dim = prediction.dim
    /\ prediction.dim = target.dim
    /\ target.dim = expected_n_input_joints(v) * d

\* the arrays visualize_results hands to visualize_rotmat
to_rotmat(v, a) ==
    IF v.rep = "quat" THEN quat_to_rotmat(a)
    ELSE IF v.rep = "aa" THEN aa_to_rotmat(a)
    ELSE a

\* the sequence visualize_rotmat hands to forward kinematics as the prediction
rotmat_pred(seed, prediction) == get_closest_rotmat(concatenate(seed, prediction))

\* mutant: the ground truth is projected like the prediction
rotmat_targ_projected(seed, target) == get_closest_rotmat(concatenate(seed, target))

\* the sequence visualize_rotmat hands to forward kinematics as the target
rotmat_targ(seed, target) == concatenate(seed, target)

\* visualize_rotmat up to forward kinematics: the exception raised, "none" if none
visualize_rotmat_error(v, seed, prediction, target) ==
    IF ~shapes_match(v, seed, prediction, target, 9) THEN "AssertionError"
    ELSE IF prediction.len # target.len THEN "AssertionError"
    ELSE IF ~is_valid_rotmat(rotmat_targ(seed, target))
        THEN "AssertionError: target rotation matrices are not valid rotations"
    ELSE IF ~is_valid_rotmat(rotmat_pred(seed, prediction))
        THEN "AssertionError: predicted rotation matrices are not valid rotations"
    ELSE "none"

\* visualize_results up to forward kinematics: the exception raised, "none" if none
visualize_results_error(v, seed, prediction, target) ==
    IF v.rep # "rotmat" /\ ~shapes_match(v, seed, prediction, target, dof(v.rep)) THEN "AssertionError"
    ELSE IF v.rep # "rotmat" /\ prediction.len # target.len THEN "AssertionError"
    ELSE IF \E x \in {seed, prediction, target} : to_rotmat(v, x) = ValueError THEN "ValueError"
    ELSE visualize_rotmat_error(v, to_rotmat(v, seed), to_rotmat(v, prediction), to_rotmat(v, target))

\* inputs of visualize_results: every content with the shapes the Visualizer
\* expects, and every combination of shapes with one content
ResultsInputs(v) ==
    LET n == expected_n_input_joints(v)
        good == n * dof(v.rep)
    IN  { <<s, p, t>> : s \in Arrays(good), p \in Arrays(good), t \in Arrays(good) }
        \cup { <<Array(ds, 1, "rot"), Array(dp, 1, "rot"), Array(dt, 1, "rot")>> :
                ds \in Dims(n), dp \in Dims(n), dt \in Dims(n) }

\* Visualizer.visualize_results(seed, prediction, target, title), up to
\* forward kinematics
visualize_results ==
    /\ CanCall("skeleton")
    /\ \E v \in Visualizers : \E in \in ResultsInputs(v) :
        /\ op' = [fn |-> "visualize_results", vis |-> v, seed |-> in[1], prediction |-> in[2],
                  target |-> in[3]]
        /\ IF visualize_results_error(v, in[1], in[2], in[3]) # "none"
           THEN Raise(visualize_results_error(v, in[1], in[2], in[3]))
           ELSE pc' = "fk" /\ err' = err
    /\ ncalls' = ncalls + 1
    /\ UNCHANGED <<vp, save_to, j, written, drawn, enc, fk, dirs, videos, client, axes, event>>

\* Visualizer.visualize_skeleton(joint_angles, fname), up to forward kinematics
visualize_skeleton_error(v, joint_angles) ==
    IF joint_angles.dim # expected_n_input_joints(v) * 9 THEN "AssertionError" ELSE "none"

visualize_skeleton ==
    /\ CanCall("skeleton")
    /\ \E v \in Visualizers : \E d \in Dims(expected_n_input_joints(v)) : \E a \in Arrays(d) :
        /\ op' = [fn |-> "visualize_skeleton", vis |-> v, joint_angles |-> a]
        /\ IF visualize_skeleton_error(v, a) # "none"
           THEN Raise(visualize_skeleton_error(v, a))
           ELSE pc' = "fk" /\ err' = err
    /\ ncalls' = ncalls + 1
    /\ UNCHANGED <<vp, save_to, j, written, drawn, enc, fk, dirs, videos, client, axes, event>>

\* the rotation sequences the running call hands to fk_engine, one per panel
fk_input ==
    IF op.fn = "visualize_results"
    THEN <<rotmat_pred(to_rotmat(op.vis, op.seed), to_rotmat(op.vis, op.prediction)),
           rotmat_targ(to_rotmat(op.vis, op.seed), to_rotmat(op.vis, op.target))>>
    ELSE <<op.joint_angles>>

\* out_name and save_to of visualize_rotmat / visualize_skeleton
out_name(v) == IF v.video_dir THEN "mp4" ELSE "None"
frames_skeleton(v) == IF v.frames_dir THEN "frames_skeleton" ELSE "None"

\* the visualize_positions call of visualize_rotmat / visualize_skeleton
positions_call ==
    IF op.fn = "visualize_results"
    THEN [fn |-> "visualize_positions", lens |-> <<fk_input[1].len, fk_input[2].len>>,
          colors |-> <<Colors0, Colors0>>,
          change_color_after_frame |-> <<Some(op.seed.len), None>>,
          out_file |-> out_name(op.vis), frame_dir |-> frames_skeleton(op.vis), fps |-> 60,
          overlay |-> FALSE]
    ELSE [fn |-> "visualize_positions", lens |-> <<fk_input[1].len>>,
          colors |-> <<Colors0>>,
          change_color_after_frame |-> <<>>,
          out_file |-> out_name(op.vis), frame_dir |-> frames_skeleton(op.vis), fps |-> 60,
          overlay |-> FALSE]

\* fk_engine.from_sparse / from_rotmat, then the call of visualize_positions
forward_kinematics ==
    /\ pc = "fk"
    /\ fk' = fk_input
    /\ vp' = positions_call
    /\ pc' = "compose"
    /\ UNCHANGED <<op, save_to, j, written, drawn, enc, err, dirs, videos, ncalls, client, axes, event>>

\* ----------------------------------------------------- visualize_dense_smpl
\* common.utils.sparse_to_full(aas, SMPL_MAJOR_JOINTS, SMPL_NR_JOINTS, rep="aa")
\* takes three values for each major joint
sparse_to_full_ok(aas_dim) == aas_dim = N_MAJOR_JOINTS * 3

\* visualize_dense_smpl up to the choice of the frame directory: the exception
\* raised, "none" if none.  np.reshape(x, [T, -1, 3, 3]) raises unless the
\* size of x is a non-zero multiple of T*9.
visualize_dense_smpl_error(v, joint_angles, model_available) ==
    IF v.rep = "quat" THEN "NotImplementedError"
    ELSE IF v.rep = "rotmat" /\ (joint_angles.len = 0 \/ joint_angles.dim % 9 # 0) THEN "ValueError"
    ELSE IF ~sparse_to_full_ok(IF v.rep = "rotmat" THEN (joint_angles.dim \div 9) * 3 ELSE joint_angles.dim)
        THEN "AssertionError"
    ELSE IF ~model_available THEN "Exception: SMPL model not available."
    ELSE "none"

\* the directory visualize_dense_smpl writes its frames to
dense_save_to(v) == IF v.frames_dir THEN "frames_smpl" ELSE "tmp_smpl"

\* Visualizer.visualize_dense_smpl(joint_angles, fname), up to os.makedirs
visualize_dense_smpl ==
    /\ CanCall("dense_smpl")
    /\ \E v \in Visualizers : \E d \in Dims(N_MAJOR_JOINTS) \cup Dims(SMPL_NR_JOINTS) :
       \E n \in 0..MaxLen : \E model_available \in BOOLEAN :
        /\ op' = [fn |-> "visualize_dense_smpl", vis |-> v, joint_angles |-> Array(d, n, "rot"),
                  model_available |-> model_available]
        /\ IF visualize_dense_smpl_error(v, Array(d, n, "rot"), model_available) # "none"
           THEN Raise(visualize_dense_smpl_error(v, Array(d, n, "rot"), model_available))
           ELSE pc' = "mkdir" /\ err' = err
    /\ ncalls' = ncalls + 1
    /\ UNCHANGED <<vp, save_to, j, written, drawn, enc, fk, dirs, videos, client, axes, event>>

visualize_dense_smpl_makedirs ==
    /\ pc = "mkdir"
    /\ op.fn = "visualize_dense_smpl"
    /\ save_to' = dense_save_to(op.vis)
    /\ dirs' = makedirs(dense_save_to(op.vis))
    /\ j' = 0
    /\ pc' = "frames"
    /\ UNCHANGED <<op, vp, written, drawn, enc, err, fk, videos, ncalls, client, axes, event>>

\* one pass of the loop: visualize_smpl_mesh(..., save_to=frame_<fr>.png)
visualize_dense_smpl_save_frame ==
    /\ pc = "frames"
    /\ op.fn = "visualize_dense_smpl"
    /\ j < op.joint_angles.len
    /\ dirs' = savefig(save_to, frame_name(j, "png"))
    /\ written' = written \cup {frame_name(j, "png")}
    /\ j' = j + 1
    /\ UNCHANGED <<pc, op, vp, save_to, drawn, enc, err, fk, videos, ncalls, client, axes, event>>

\* after the loop: create_mp4_clip(video_path, frame_path) if video_dir is set
visualize_dense_smpl_encode ==
    /\ pc = "frames"
    /\ op.fn = "visualize_dense_smpl"
    /\ j >= op.joint_angles.len
    /\ IF op.vis.video_dir
       THEN \E outcome \in EncoderOutcomes :
            /\ enc' = Append(enc, Invocation(smpl_mp4, save_to, 60, 0, outcome))
            /\ IF outcome = "missing"
               THEN Raise("FileNotFoundError") /\ videos' = videos
               ELSE /\ videos' = create_mp4_clip(smpl_mp4, outcome)
                    /\ pc' = "cleanup"
                    /\ err' = err
       ELSE /\ pc' = "cleanup"
            /\ UNCHANGED <<enc, err, videos, client>>
    /\ UNCHANGED <<op, vp, save_to, j, written, drawn, fk, dirs, ncalls, client, axes, event>>

\* the directories after `if self.frames_dir is None: shutil.rmtree(save_to)`
dense_cleanup(v) == IF v.frames_dir THEN dirs ELSE rmtree(save_to)

visualize_dense_smpl_cleanup ==
    /\ pc = "cleanup"
    /\ op.fn = "visualize_dense_smpl"
    /\ dirs' = dense_cleanup(op.vis)
    /\ pc' = "done"
    /\ UNCHANGED <<op, vp, save_to, j, written, drawn, enc, err, fk, videos, ncalls, client, axes, event>>

\* ------------------------------------------------------------ save_animation
SaveAnimationArgs ==
    [fn : {"save_animation"}, seq_length : 0..MaxLen, start_recording : 0..MaxLen,
     end_recording : OptFrames, create_mp4 : BOOLEAN, image_format : {"png", "jpg"}, fps : {30, 60}]

\* start_frame = start_recording
start_frame(a) == a.start_recording

\* end_frame = end_recording or seq_length
end_frame(a) == IF Truthy(a.end_recording) THEN a.end_recording[1] ELSE a.seq_length

\* save_animation(fig, seq_length, update_func, update_func_args, out_folder, ...)
save_animation ==
    /\ CanCall("animation")
    /\ \E a \in SaveAnimationArgs :
        /\ op' = a
        /\ IF a.create_mp4 /\ a.image_format # "png"
           THEN Raise("AssertionError")
           ELSE pc' = "mkdir" /\ err' = err
    /\ ncalls' = ncalls + 1
    /\ UNCHANGED <<vp, save_to, j, written, drawn, enc, fk, dirs, videos, client, axes, event>>

save_animation_makedirs ==
    /\ pc = "mkdir"
    /\ op.fn = "save_animation"
    /\ save_to' = "out_folder"
    /\ dirs' = makedirs("out_folder")
    /\ j' = start_frame(op)
    /\ pc' = "frames"
    /\ UNCHANGED <<op, vp, written, drawn, enc, err, fk, videos, ncalls, client, axes, event>>

\* one pass of the loop: update_func(j, ...), fig.savefig(frame_<j>.<format>)
save_animation_save_frame ==
    /\ pc = "frames"
    /\ op.fn = "save_animation"
    /\ j < end_frame(op)
    /\ drawn' = [num |-> j, color |-> <<>>, text |-> 0]
    /\ dirs' = savefig(save_to, frame_name(j, op.image_format))
    /\ written' = written \cup {frame_name(j, op.image_format)}
    /\ j' = j + 1
    /\ UNCHANGED <<pc, op, vp, save_to, enc, err, fk, videos, ncalls, client, axes, event>>

\* mutant: the first name is taken without probing
movie_counter_unprobed(counter) == counter

RECURSIVE movie_counter(_)
\* counter = 0; while os.path.exists(vid<counter>.mp4): counter += 1
movie_counter(counter) == IF vid_mp4(counter) \in videos THEN movie_counter(counter + 1) ELSE counter

\* the start number save_animation gives create_mp4_clip: its default
animation_start_number(a) == 0

\* after the loop: if create_mp4, the movie name and create_mp4_clip(movie_name, frame_path, fps)
save_animation_encode ==
    /\ pc = "frames"
    /\ op.fn = "save_animation"
    /\ j >= end_frame(op)
    /\ IF op.create_mp4
       THEN \E outcome \in EncoderOutcomes :
            /\ enc' = Append(enc, Invocation(vid_mp4(movie_counter(0)), save_to, op.fps,
                                             animation_start_number(op), outcome))
            /\ IF outcome = "missing"
               THEN Raise("FileNotFoundError") /\ videos' = videos
               ELSE /\ videos' = create_mp4_clip(vid_mp4(movie_counter(0)), outcome)
                    /\ pc' = "done"
                    /\ err' = err
       ELSE /\ pc' = "done"
            /\ UNCHANGED <<enc, err, videos, client>>
    /\ UNCHANGED <<op, vp, save_to, j, written, drawn, fk, dirs, ncalls, client, axes, event>>

\* the call has returned or raised: the caller goes on
Return ==
    /\ pc \in {"done", "failed"}
    /\ pc' = "idle"
    /\ op' = NoCall
    /\ vp' = NoVp
    /\ save_to' = "none"
    /\ j' = 0
    /\ written' = {}
    /\ drawn' = NoDrawn
    /\ enc' = <<>>
    /\ err' = "none"
    /\ fk' = <<>>
    /\ axes' = <<>>
    /\ event' = NoEvent
    /\ UNCHANGED <<dirs, videos, ncalls, client>>

Next ==
    \/ visualize_positions
    \/ visualize_results
    \/ visualize_skeleton
    \/ forward_kinematics
    \/ visualize_positions_compose
    \/ show_frame
    \/ motion_notify_event
    \/ show_close
    \/ visualize_positions_makedirs
    \/ visualize_positions_save_frame
    \/ visualize_positions_encode
    \/ visualize_positions_cleanup
    \/ visualize_dense_smpl
    \/ visualize_dense_smpl_makedirs
    \/ visualize_dense_smpl_save_frame
    \/ visualize_dense_smpl_encode
    \/ visualize_dense_smpl_cleanup
    \/ save_animation
    \/ save_animation_makedirs
    \/ save_animation_save_frame
    \/ save_animation_encode
    \/ Return

Spec == Init /\ [][Next]_vars

\* ===================================================================== claims
\* the frame files frame_0000.png .. frame_<n-1>.png
FrameFiles(n) == {frame_name(i, "png") : i \in 0..(n - 1)}

\* the formatted indices of a set of frame files
Stems(files) == {f.stem : f \in files}

\* the frame files the directory d holds
Held(d) == IF d \in DirNames THEN dirs[d].files ELSE {}

\* the running call has left its frame loop
VideoBranchLoopDone == vp.fn = "visualize_positions" /\ pc = "cleanup"
SaveAnimationLoopDone == op.fn = "save_animation" /\ pc = "done"

\* the running call is an export that had the encoder started (or tried to)
EncodingAttempted == enc # <<>>
CallEnded == pc \in {"done", "failed"}

\* C1 (as claimed): when an export of visualize_positions' video branch or of
\* save_animation has written its N >= 1 frames, their indices are exactly
\* 0..N-1, four digits wide, and the target directory holds exactly these N files.
C1_FramesNumberedFromZero ==
    (VideoBranchLoopDone \/ SaveAnimationLoopDone) /\ written # {}
    => /\ Stems(written) = Stems(FrameFiles(Cardinality(written)))
       /\ Held(save_to) = written

\* C2 (as claimed): once the encoder has been tried and the call is over, a
\* temporary frame directory no longer exists, whatever the encoder did, and a
\* requested frame directory still holds the frames written.
C2_TemporaryDirectoryDeleted ==
    /\ EncodingAttempted /\ CallEnded /\ save_to \in {"out_file_tmp", "tmp_smpl"}
       => ~path_exists(save_to)
    /\ EncodingAttempted /\ CallEnded /\ save_to \in {"frames_skeleton", "frames_smpl"}
       => path_exists(save_to) /\ written \subseteq Held(save_to)

\* C3 (as claimed): when the encoder is missing or exits non-zero, the call
\* ends in an error and the frame files written are still there.
C3_EncoderFailureIsAnError ==
    EncodingAttempted /\ CallEnded /\ enc[Len(enc)].outcome # "ok"
    => pc = "failed" /\ path_exists(save_to) /\ written \subseteq Held(save_to)

\* C4 (as claimed): a Visualizer with frames_dir and no video_dir: when
\* visualize_results or visualize_skeleton has returned, every frame
\* 0..N-1 is in the frame directory and the encoder was not invoked.
C4_FramesOnlyDestination ==
    /\ op.fn \in {"visualize_results", "visualize_skeleton"}
    /\ op.vis.frames_dir /\ ~op.vis.video_dir
    /\ pc = "done"
    => /\ enc = <<>>
       /\ FrameFiles(Min({vp.lens[l] : l \in 1..Len(vp.lens)})) \subseteq Held("frames_skeleton")

\* the colour the claim gives panel l at frame t
ClaimedColor(t, l) ==
    IF vp.change_color_after_frame = <<>> THEN vp.colors[l]
    ELSE IF vp.change_color_after_frame[l] = None THEN vp.colors[l]
    ELSE IF t < vp.change_color_after_frame[l][1] THEN vp.colors[l]
    ELSE Colors2

\* C5 (as claimed): after update_frame(t), every panel's segments have the
\* panel's base colour if its cutover is unset or t < cutover and the
\* post-cutover colour if t >= cutover, for every cutover >= 0; from
\* visualize_rotmat the cutover is (seed length, None).
C5_ColorCutover ==
    /\ vp.fn = "visualize_positions" /\ drawn.num >= 0
       => \A l \in 1..Len(vp.lens) : drawn.color[l] = ClaimedColor(drawn.num, l)
    /\ vp.fn = "visualize_positions" /\ op.fn = "visualize_results"
       => vp.change_color_after_frame = <<Some(op.seed.len), None>>

\* C6 (as claimed): a visualize_positions call with a panel of zero frames
\* fails before a directory is created, a frame written or the encoder
\* invoked; stated of the calls that export (out_file given), the ones with a
\* directory to create and an encoder to invoke.
C6_EmptyAnimationFails ==
    /\ vp.fn = "visualize_positions" /\ vp.out_file # "None"
    /\ \E l \in 1..Len(vp.lens) : vp.lens[l] = 0
    /\ pc # "compose"
    => pc = "failed" /\ save_to = "none" /\ written = {} /\ enc = <<>>

\* the length of the shortest panel of the running visualize_positions call
ShortestPanel == CHOOSE n \in {vp.lens[l] : l \in 1..Len(vp.lens)} : \A l \in 1..Len(vp.lens) : n <= vp.lens[l]

\* C7: visualize_positions exports exactly the frames 0..min-1 of panels of
\* lengths L1..Lk, each frame drawn for every panel: while the loop runs it has
\* written frames 0..j-1 with j <= min, once the encoder is tried exactly
\* 0..min-1; and panels of different lengths are no error: with a first panel
\* that has frames and an .mp4 out_file the call gets as far as the encoder.
C7_TruncatesToShortest ==
    vp.fn = "visualize_positions" /\ vp.out_file # "None"
    => /\ pc = "frames" => j <= ShortestPanel /\ written = FrameFiles(j)
       /\ pc = "frames" /\ j > 0 => drawn.num = j - 1 /\ Len(drawn.color) = Len(vp.lens)
       /\ EncodingAttempted => written = FrameFiles(ShortestPanel)
       /\ pc = "failed" /\ ~EncodingAttempted => vp.lens[1] = 0 \/ vp.out_file # "mp4"

\* C7 witness: panels of lengths 2 and 1, the export is over, one frame written
C7_Witness ==
    /\ vp.fn = "visualize_positions" /\ vp.lens = <<2, 1>>
    /\ pc = "done" /\ vp.frame_dir = "frames_skeleton"
    /\ written = FrameFiles(1) /\ Held("frames_skeleton") = FrameFiles(1)

\* the seed, prediction and target as visualize_rotmat gets them
RotmatCall == op.fn = "visualize_results" /\ op.vis.rep = "rotmat"

\* C8: in visualize_rotmat the sequence handed to forward kinematics as
\* prediction is the projection of seed+prediction, the one handed over as
\* target is seed+target as given, and with an invalid rotation in seed or
\* target the call fails before forward kinematics, directory or file.
C8_GroundTruthOnlyValidated ==
    /\ RotmatCall /\ fk # <<>>
       => /\ fk[2] = [dim |-> op.target.dim, len |-> op.seed.len + op.target.len, mats |-> "rot"]
          /\ op.seed.mats = "rot" /\ op.target.mats = "rot"
          /\ fk[1].len = op.seed.len + op.prediction.len
          /\ fk[1].mats = IF op.prediction.mats = "skew" THEN "projected" ELSE "rot"
    /\ RotmatCall /\ (op.seed.mats = "skew" \/ op.target.mats = "skew")
       => pc = "failed" /\ fk = <<>> /\ save_to = "none" /\ written = {} /\ enc = <<>>

\* C8 witness: an invalid prediction was projected and a ground truth went
\* through unchanged, and the frames were written
C8_Witness ==
    /\ RotmatCall /\ op.prediction.mats = "skew" /\ op.seed.len = 1
    /\ fk # <<>> /\ pc = "done" /\ written # {}

\* the trailing dimensions of the input arrays of the running Visualizer call
InputDims ==
    IF op.fn = "visualize_results" THEN {op.seed.dim, op.prediction.dim, op.target.dim}
    ELSE {op.joint_angles.dim}

\* C9 (as claimed): a Visualizer entry point given an array whose trailing
\* dimension is not expected_n_input_joints * dof(rep) fails before
\* kinematics, directory creation and frame write; stated of the entry points
\* whose shape checks are all in render.py, visualize_results and
\* visualize_skeleton.
C9_ShapeMismatchFails ==
    /\ op.fn \in {"visualize_results", "visualize_skeleton"}
    /\ \E d \in InputDims :
        d # (IF op.vis.is_sparse THEN N_MAJOR_JOINTS ELSE SMPL_NR_JOINTS)
             * (IF op.vis.rep = "rotmat" THEN 9 ELSE IF op.vis.rep = "quat" THEN 4 ELSE 3)
    => pc = "failed" /\ fk = <<>> /\ save_to = "none" /\ written = {}

\* C10 (as claimed): no encoder invocation writes to a name that existed
C10_NeverOverwrites == \A i \in 1..Len(enc) : ~enc[i].existed

\* C10 (amended): an invocation by save_animation writes to vid<k>.mp4, k the
\* first of 0, 1, 2, ... whose name was unused, and never to an existing file;
\* the other exports write to the one name their caller fixes
C10_SaveAnimationProbes ==
    \A i \in 1..Len(enc) :
        IF op.fn = "save_animation"
        THEN /\ ~enc[i].existed
             /\ enc[i].out.name = "vid"
             /\ \A k \in 0..(enc[i].out.n - 1) : vid_mp4(k) \in videos
        ELSE enc[i].out \in {skeleton_mp4, smpl_mp4}

\* C10 witness: vid0.mp4 existed, save_animation wrote vid1.mp4
C10_Witness ==
    /\ op.fn = "save_animation" /\ enc # <<>>
    /\ enc[1].out = vid_mp4(1) /\ enc[1].outcome = "ok"
    /\ vid_mp4(0) \in videos /\ vid_mp4(1) \in videos

\* ------------------------------------------------------------------ C11
\* the annotation the claim gives frame t at rate fps: t / fps seconds, in
\* hundredths as '{:>.2f}' prints them
ClaimedSeconds(t, fps) == (2 * 100 * t + fps) \div (2 * fps)

\* C11 (as claimed): in a visualize_positions call with frame rate fps, the
\* frame t last drawn is annotated with t / fps seconds, and every encoder
\* invocation of the call has that fps as its input frame rate
C11_FpsAnnotationAndEncoder ==
    (pc # "idle" /\ vp.fn = "visualize_positions") =>
        /\ drawn.num >= 0 => drawn.text = ClaimedSeconds(drawn.num, vp.fps)
        /\ \A i \in 1..Len(enc) : enc[i].framerate = vp.fps

\* ------------------------------------------------------------------ C12
\* the camera of a panel: orientation and axis limits
Camera(a) == <<a.elev, a.azim, a.xlim, a.ylim, a.zlim>>

\* after a motion event inside panel event.inaxes every panel has the camera
\* of that panel
CameraSynced ==
    event.inaxes >= 1 =>
        /\ event.inaxes <= Len(axes)
        /\ \A i \in 1..Len(axes) : Camera(axes[i]) = Camera(axes[event.inaxes])

\* before any motion event all panels of the figure have one orientation
CameraStart ==
    event = NoEvent =>
        \A i, k \in 1..Len(axes) : axes[i].elev = axes[k].elev /\ axes[i].azim = axes[k].azim

\* C12: after a motion event inside a panel all panels have the elevation,
\* azimuth and x/y/z limits of that panel; a motion event outside all panels
\* leaves every camera as it was; the panels start with one orientation
C12_CameraSync ==
    /\ [](CameraSynced /\ CameraStart)
    /\ [][event'.inaxes = 0 => axes' = axes]_vars

\* C12 witness: panel 1 of two was turned and zoomed, panel 2 has followed
\* with the orientation and the limits of panel 1 (its own were those of its
\* data), and a later event outside the panels has been delivered
C12_Witness ==
    /\ pc = "show" /\ Len(axes) = 2 /\ event.inaxes = 0
    /\ axes[1].elev = 30 /\ axes[1].xlim = Limits(1, 1)
    /\ Camera(axes[2]) = Camera(axes[1])

\* ------------------------------------------------------------------ C13
\* a step of a running video export of visualize_positions
ExportStep == vp.fn = "visualize_positions" /\ vp.out_file # "None" /\ pc' # "idle"

\* the encoder process of the export has run and exited
EncoderExited == Len(enc) = 1 /\ enc[1].outcome \in {"ok", "nonzero"}

\* a frame is written: the directory exists already, the frame is the one
\* after those written so far, and the encoder has not been invoked
FrameWriteInOrder ==
    written' # written =>
        /\ save_to \in DirNames /\ path_exists(save_to)
        /\ written = FrameFiles(Cardinality(written))
        /\ written' = FrameFiles(Cardinality(written) + 1)
        /\ written' \subseteq dirs'[save_to].files
        /\ enc = <<>> /\ enc' = <<>>

\* the encoder is invoked: every frame of the export has been written and is
\* in the directory the encoder reads, and no frame is written with it
EncoderAfterLastFrame ==
    enc' # enc =>
        /\ enc = <<>> /\ Len(enc') = 1
        /\ written = FrameFiles(ShortestPanel) /\ written' = written
        /\ written \subseteq dirs[save_to].files
        /\ enc'[1].pattern = save_to

\* the call goes on after the encoder only when the process has exited
CallerWaits == pc' \in {"cleanup", "done"} => EncoderExited'

\* a directory is deleted: it is the temporary one, after the encoder exited
DeleteAfterExit ==
    \A d \in DirNames :
        path_exists(d) /\ ~dirs'[d].exists =>
            d = save_to /\ vp.frame_dir = "None" /\ pc = "cleanup" /\ EncoderExited

\* C13: in a video export of visualize_positions the frame directory exists
\* before the first frame is written; the frames are written one at a time in
\* ascending order; the encoder is invoked only after the last frame; the call
\* continues only after the encoder process has exited; and the temporary
\* frames are deleted only after that
C13_ExportOrder ==
    [][ExportStep =>
            /\ FrameWriteInOrder
            /\ EncoderAfterLastFrame
            /\ CallerWaits
            /\ DeleteAfterExit]_vars

\* C13 witness: an export to a temporary directory is over: two frames were
\* written, the encoder ran and exited, the directory is gone
C13_Witness ==
    /\ vp.fn = "visualize_positions" /\ vp.out_file = "mp4" /\ vp.frame_dir = "None"
    /\ pc = "done" /\ written = FrameFiles(2)
    /\ EncoderExited /\ enc[1].outcome = "ok" /\ skeleton_mp4 \in videos
    /\ ~path_exists("out_file_tmp")

====
